---- MODULE Spec2Model ----
(***************************************************************************)
(* Model of my-project/src/lib/imageOps.ts: the five image stages and the  *)
(* orchestrator applyPipeline, run on small RGBA images.                   *)
(*                                                                         *)
(* An ImageData object is a record [width, height, data]; data is the      *)
(* sequence of its pixels in row-major order, each pixel <<r, g, b, a>>,   *)
(* so the byte length of the buffer is 4 * Len(data).  Objects live in a   *)
(* heap (a sequence); a reference is an index into it.                     *)
(*                                                                         *)
(* JavaScript numbers are modelled as exact fractions [n, d] with d >= 0;  *)
(* d = 0 encodes the IEEE specials: n > 0 is +Infinity, n < 0 is           *)
(* -Infinity and n = 0 is NaN.                                             *)
(***************************************************************************)
EXTENDS Integers, Sequences, FiniteSets

\* ------------------------------------------------------------------ bounds
MaxW == 2
MaxH == 2
MaxRuns == 2
MaxChanges == 2

\* ------------------------------------------------------- number arithmetic
RECURSIVE Gcd(_, _)
Gcd(a, b) == IF b = 0 THEN a ELSE Gcd(b, a % b)

Abs(x) == IF x < 0 THEN -x ELSE x

Sign(x) == IF x > 0 THEN 1 ELSE IF x < 0 THEN -1 ELSE 0

\* the number n/d in lowest terms; a zero denominator keeps only the sign
Num(n, d) ==
    IF d = 0 THEN [n |-> Sign(n), d |-> 0]
    ELSE LET g == Gcd(Abs(n), Abs(d))
             s == IF d < 0 THEN -1 ELSE 1
         IN  [n |-> s * (n \div g), d |-> s * (d \div g)]

Whole(k) == [n |-> k, d |-> 1]

IsNaN(x) == x.d = 0 /\ x.n = 0
IsFinite(x) == x.d > 0

\* The sum, difference, product and quotient, with common factors divided
\* out before multiplying.  With a zero denominator the plain formulas give
\* the IEEE results: Infinity - Infinity and 0 * Infinity are NaN, x / 0 is
\* +-Infinity, 0 / 0 is NaN.
Add(x, y) ==
    IF x.d = 0 \/ y.d = 0 THEN Num(x.n * y.d + y.n * x.d, x.d * y.d)
    ELSE LET g == Gcd(x.d, y.d)
         IN  Num(x.n * (y.d \div g) + y.n * (x.d \div g), (x.d \div g) * y.d)

Neg(x) == [n |-> -x.n, d |-> x.d]

Sub(x, y) == Add(x, Neg(y))

Mul(x, y) ==
    IF x.d = 0 \/ y.d = 0 \/ x.n = 0 \/ y.n = 0 THEN Num(x.n * y.n, x.d * y.d)
    ELSE LET g1 == Gcd(Abs(x.n), y.d)
             g2 == Gcd(Abs(y.n), x.d)
         IN  Num((x.n \div g1) * (y.n \div g2), (x.d \div g2) * (y.d \div g1))

Div(x, y) == Mul(x, Num(y.d, y.n))

\* x < y and x > y as IEEE comparisons: false when either side is NaN
Lt(x, y) ==
    /\ ~IsNaN(x) /\ ~IsNaN(y)
    /\ IF x.d = 0 /\ y.d = 0 THEN x.n < y.n
       ELSE IF x.d = 0 THEN x.n < 0
       ELSE IF y.d = 0 THEN y.n > 0
       ELSE LET g == Gcd(x.d, y.d)
            IN  x.n * (y.d \div g) < y.n * (x.d \div g)
Gt(x, y) == Lt(y, x)

\* export function clamp(v, min = 0, max = 255)
clamp(v) == IF Lt(v, Whole(0)) THEN Whole(0) ELSE IF Gt(v, Whole(255)) THEN Whole(255) ELSE v

\* Storing a number into a Uint8ClampedArray element: NaN becomes 0, the
\* value is clamped to [0, 255] and rounded to nearest, ties to even.
ToUint8Clamp(v) ==
    IF IsNaN(v) \/ ~Gt(v, Whole(0)) THEN 0
    ELSE IF ~Lt(v, Whole(255)) THEN 255
    ELSE LET q == v.n \div v.d
             r == v.n % v.d
         IN  IF 2 * r < v.d THEN q
             ELSE IF 2 * r > v.d THEN q + 1
             ELSE IF q % 2 = 0 THEN q ELSE q + 1

\* ------------------------------------------------------------- ImageData
ZeroPixel == <<0, 0, 0, 0>>

\* What the loop "for (i = 0; i < src.length; i += 4) dst[i..i+3] = ..."
\* leaves in the data of a fresh ImageData(width, height), which holds
\* width * height zero pixels; written[i] is what the loop writes for source
\* pixel i.  Pixels the loop does not reach keep their zeros, writes past the
\* end of dst are dropped.
Filled(width, height, written) ==
    [width |-> width, height |-> height,
     data |-> [i \in 1..(width * height) |->
                 IF i <= Len(written) THEN written[i] ELSE ZeroPixel]]

\* A stage's "out = new ImageData(...); ...; return out": the object is
\* allocated at a fresh reference, the heap below it is untouched.
ReturnNew(h, obj) == [heap |-> Append(h, obj), ret |-> Len(h) + 1]

\* A stage's early "return data": no allocation, the same reference.
ReturnSame(h, ref) == [heap |-> h, ret |-> ref]

\* ------------------------------------------------- applyAutoWhiteBalance
\* A clip fraction is a fraction [num, den]; the default clipPct = 0.005:
ClipPctNum == 5
ClipPctDen == 1000

DefaultClipPct == [num |-> ClipPctNum, den |-> ClipPctDen]

\* Math.max(0, Math.min(n - 1, Math.round(n * clipPct))); Math.round rounds
\* a half up
ClipN(n, clip) ==
    LET rounded == (2 * n * clip.num + clip.den) \div (2 * clip.den)
        capped == IF rounded < n - 1 THEN rounded ELSE n - 1
    IN  IF capped > 0 THEN capped ELSE 0

\* the bins of channel c's histogram (hr, hg, hb) that are not empty
Bins(pixels, c) == {pixels[i][c] : i \in 1..Len(pixels)}

\* acc of the ascending scan after bin v: hist[0] + ... + hist[v]
CountUpTo(pixels, c, v) == Cardinality({i \in 1..Len(pixels) : pixels[i][c] <= v})

\* acc of the descending scan after bin v: hist[255] + ... + hist[v]
CountDownTo(pixels, c, v) == Cardinality({i \in 1..Len(pixels) : pixels[i][c] >= v})

\* mutant: without "if (hi <= lo) { lo = 0; hi = 255; }"
lowHighUnguarded(pixels, c, clipN) ==
    LET ups == {v \in Bins(pixels, c) : CountUpTo(pixels, c, v) > clipN}
        downs == {v \in Bins(pixels, c) : CountDownTo(pixels, c, v) > clipN}
        lo == IF ups = {} THEN 0 ELSE CHOOSE v \in ups : \A u \in ups : v <= u
        hi == IF downs = {} THEN 255 ELSE CHOOSE v \in downs : \A u \in downs : v >= u
    IN  <<lo, hi>>

\* mutant: the scans stop where acc reaches clipN ("acc >= clipN")
lowHighReaching(pixels, c, clipN) ==
    LET ups == {v \in Bins(pixels, c) \cup {0} : CountUpTo(pixels, c, v) >= clipN}
        downs == {v \in Bins(pixels, c) \cup {255} : CountDownTo(pixels, c, v) >= clipN}
        lo == IF ups = {} THEN 0 ELSE CHOOSE v \in ups : \A u \in ups : v <= u
        hi == IF downs = {} THEN 255 ELSE CHOOSE v \in downs : \A u \in downs : v >= u
    IN  IF hi <= lo THEN <<0, 255>> ELSE <<lo, hi>>

\* lowHigh(hist) for channel c.  A scan stops at the first bin where acc
\* exceeds clipN; acc only grows at a bin that is not empty, so that bin is
\* the least (greatest) such bin of Bins; lo and hi keep 0 and 255 otherwise.
lowHigh(pixels, c, clipN) ==
    LET ups == {v \in Bins(pixels, c) : CountUpTo(pixels, c, v) > clipN}
        downs == {v \in Bins(pixels, c) : CountDownTo(pixels, c, v) > clipN}
        lo == IF ups = {} THEN 0 ELSE CHOOSE v \in ups : \A u \in ups : v <= u
        hi == IF downs = {} THEN 255 ELSE CHOOSE v \in downs : \A u \in downs : v >= u
    IN  IF hi <= lo THEN <<0, 255>> ELSE <<lo, hi>>

\* lut[v] of makeLut(lo, hi)
makeLut(lo, hi, v) ==
    LET range == IF hi - lo = 0 THEN 1 ELSE hi - lo
        t == Mul(Div(Whole(v - lo), Whole(range)), Whole(255))
    IN  ToUint8Clamp(IF Lt(t, Whole(0)) THEN Whole(0)
                     ELSE IF Gt(t, Whole(255)) THEN Whole(255) ELSE t)

AutoWhiteBalanceImage(data, clip) ==
    LET clipN == ClipN(data.width * data.height, clip)
        r == lowHigh(data.data, 1, clipN)
        g == lowHigh(data.data, 2, clipN)
        b == lowHigh(data.data, 3, clipN)
    IN  Filled(data.width, data.height,
               [i \in DOMAIN data.data |->
                   <<makeLut(r[1], r[2], data.data[i][1]),
                     makeLut(g[1], g[2], data.data[i][2]),
                     makeLut(b[1], b[2], data.data[i][3]),
                     data.data[i][4]>>])

\* mutant: the lookup tables are applied to the input's own data
applyAutoWhiteBalanceInPlace(h, ref, clip) ==
    IF h[ref].width * h[ref].height = 0 THEN ReturnSame(h, ref)
    ELSE [heap |-> [h EXCEPT ![ref] = AutoWhiteBalanceImage(h[ref], clip)], ret |-> ref]

\* applyAutoWhiteBalance(data, clipPct = 0.005)
applyAutoWhiteBalance(h, ref, clip) ==
    IF h[ref].width * h[ref].height = 0 THEN ReturnSame(h, ref)
    ELSE ReturnNew(h, AutoWhiteBalanceImage(h[ref], clip))

\* ------------------------------------------------ applyBrightnessContrast
\* mutant: f = (c + 1) / (1 - c), without 259 / 255
ContrastFactorPlain(contrastPct) ==
    LET c == Div(Whole(contrastPct), Whole(100))
    IN  Div(Add(c, Whole(1)), Sub(Whole(1), c))

\* f = (259 * (c + 1)) / (255 * (1 - c)) with c = contrastPct / 100
ContrastFactor(contrastPct) ==
    LET c == Div(Whole(contrastPct), Whole(100))
    IN  Div(Mul(Whole(259), Add(c, Whole(1))), Mul(Whole(255), Sub(Whole(1), c)))

\* b = (brightnessPct / 100) * 255
BrightnessTerm(brightnessPct) == Mul(Div(Whole(brightnessPct), Whole(100)), Whole(255))

\* f * (src[i] - 128) + 128 + b, before clamp
BrightnessContrastValue(v, brightnessPct, contrastPct) ==
    Add(Add(Mul(ContrastFactor(contrastPct), Whole(v - 128)), Whole(128)),
        BrightnessTerm(brightnessPct))

BrightnessContrastChannel(v, brightnessPct, contrastPct) ==
    ToUint8Clamp(clamp(BrightnessContrastValue(v, brightnessPct, contrastPct)))

BrightnessContrastImage(data, brightnessPct, contrastPct) ==
    Filled(data.width, data.height,
           [i \in DOMAIN data.data |->
               <<BrightnessContrastChannel(data.data[i][1], brightnessPct, contrastPct),
                 BrightnessContrastChannel(data.data[i][2], brightnessPct, contrastPct),
                 BrightnessContrastChannel(data.data[i][3], brightnessPct, contrastPct),
                 data.data[i][4]>>])

\* mutant: dst is the input's own data
applyBrightnessContrastInPlace(h, ref, brightnessPct, contrastPct) ==
    [heap |-> [h EXCEPT ![ref] = BrightnessContrastImage(h[ref], brightnessPct, contrastPct)],
     ret |-> ref]

applyBrightnessContrast(h, ref, brightnessPct, contrastPct) ==
    ReturnNew(h, BrightnessContrastImage(h[ref], brightnessPct, contrastPct))

\* -------------------------------------------------------- applySaturation
Max3(a, b, c) == IF a >= b /\ a >= c THEN a ELSE IF b >= c THEN b ELSE c
Min3(a, b, c) == IF a <= b /\ a <= c THEN a ELSE IF b <= c THEN b ELSE c

\* mutant: l is max instead of (max + min) / 2
rgbToHslLightnessOfMax(r, g, b) ==
    LET max == Max3(r, g, b)
        min == Min3(r, g, b)
        fmax == Num(max, 255)
        fmin == Num(min, 255)
        l == fmax
        d == Sub(fmax, fmin)
        s == IF Gt(l, Num(1, 2))
             THEN Div(d, Sub(Sub(Whole(2), fmax), fmin))
             ELSE Div(d, Sub(fmax, fmin))
        h6 == IF max = r
              THEN Add(Div(Num(g - b, 255), d), Whole(IF g < b THEN 6 ELSE 0))
              ELSE IF max = g
              THEN Add(Div(Num(b - r, 255), d), Whole(2))
              ELSE Add(Div(Num(r - g, 255), d), Whole(4))
    IN  IF max # min THEN <<Div(h6, Whole(6)), s, l>>
        ELSE <<Whole(0), Whole(0), l>>

\* rgbToHsl(r, g, b) on channel values 0..255; the result is << h, s, l >>
rgbToHsl(r, g, b) ==
    LET max == Max3(r, g, b)
        min == Min3(r, g, b)
        fmax == Num(max, 255)
        fmin == Num(min, 255)
        l == Div(Add(fmax, fmin), Whole(2))
        d == Sub(fmax, fmin)
        s == IF Gt(l, Num(1, 2))
             THEN Div(d, Sub(Sub(Whole(2), fmax), fmin))
             ELSE Div(d, Sub(fmax, fmin))
        h6 == IF max = r
              THEN Add(Div(Num(g - b, 255), d), Whole(IF g < b THEN 6 ELSE 0))
              ELSE IF max = g
              THEN Add(Div(Num(b - r, 255), d), Whole(2))
              ELSE Add(Div(Num(r - g, 255), d), Whole(4))
    IN  IF max # min THEN <<Div(h6, Whole(6)), s, l>>
        ELSE <<Whole(0), Whole(0), l>>

hue2rgb(p, q, t0) ==
    LET t1 == IF Lt(t0, Whole(0)) THEN Add(t0, Whole(1)) ELSE t0
        t == IF Gt(t1, Whole(1)) THEN Sub(t1, Whole(1)) ELSE t1
    IN  IF Lt(t, Num(1, 6)) THEN Add(p, Mul(Mul(Sub(q, p), Whole(6)), t))
        ELSE IF Lt(t, Num(1, 2)) THEN q
        ELSE IF Lt(t, Num(2, 3))
             THEN Add(p, Mul(Mul(Sub(q, p), Sub(Num(2, 3), t)), Whole(6)))
        ELSE p

\* hslToRgb(h, s, l); the result is << r * 255, g * 255, b * 255 >>
hslToRgb(h, s, l) ==
    IF s = Whole(0) THEN <<Mul(l, Whole(255)), Mul(l, Whole(255)), Mul(l, Whole(255))>>
    ELSE LET q == IF Lt(l, Num(1, 2)) THEN Mul(l, Add(Whole(1), s))
                  ELSE Sub(Add(l, s), Mul(l, s))
             p == Sub(Mul(Whole(2), l), q)
         IN  <<Mul(hue2rgb(p, q, Add(h, Num(1, 3))), Whole(255)),
               Mul(hue2rgb(p, q, h), Whole(255)),
               Mul(hue2rgb(p, q, Sub(h, Num(1, 3))), Whole(255))>>

\* factor = 1 + saturationPct / 100
SaturationFactor(saturationPct) == Add(Whole(1), Div(Whole(saturationPct), Whole(100)))

\* Math.max(0, Math.min(1, s * factor))
ScaledSaturation(s, saturationPct) ==
    LET x == Mul(s, SaturationFactor(saturationPct))
        capped == IF Lt(x, Whole(1)) THEN x ELSE Whole(1)
    IN  IF Gt(capped, Whole(0)) THEN capped ELSE Whole(0)

\* mutant: the alpha byte is not copied
SaturationPixelDropsAlpha(p, saturationPct) ==
    LET hsl == rgbToHsl(p[1], p[2], p[3])
        rgb == hslToRgb(hsl[1], ScaledSaturation(hsl[2], saturationPct), hsl[3])
    IN  <<ToUint8Clamp(clamp(rgb[1])), ToUint8Clamp(clamp(rgb[2])),
          ToUint8Clamp(clamp(rgb[3])), 0>>

SaturationPixel(p, saturationPct) ==
    LET hsl == rgbToHsl(p[1], p[2], p[3])
        rgb == hslToRgb(hsl[1], ScaledSaturation(hsl[2], saturationPct), hsl[3])
    IN  <<ToUint8Clamp(clamp(rgb[1])), ToUint8Clamp(clamp(rgb[2])),
          ToUint8Clamp(clamp(rgb[3])), p[4]>>

SaturationImage(data, saturationPct) ==
    Filled(data.width, data.height,
           [i \in DOMAIN data.data |-> SaturationPixel(data.data[i], saturationPct)])

\* mutant: no early return for saturationPct = 0
applySaturationUnguarded(h, ref, saturationPct) ==
    ReturnNew(h, SaturationImage(h[ref], saturationPct))

\* mutant: dst is the input's own data
applySaturationInPlace(h, ref, saturationPct) ==
    IF saturationPct = 0 THEN ReturnSame(h, ref)
    ELSE [heap |-> [h EXCEPT ![ref] = SaturationImage(h[ref], saturationPct)], ret |-> ref]

applySaturation(h, ref, saturationPct) ==
    IF saturationPct = 0 THEN ReturnSame(h, ref)
    ELSE ReturnNew(h, SaturationImage(h[ref], saturationPct))

\* ----------------------------------------------------- applyGaussianNoise
\* Math.random() is the engine's hidden generator: a hidden state that every
\* call advances.  It is modelled by a full-period generator over 8 states
\* whose call returns state / 8, a value in [0, 1) that can be exactly 0.
RngNext(s) == (5 * s + 3) % 8

\* mutant: "u = Math.random()" without the loop
DrawOnce(s, calls) == [u |-> RngNext(s), rng |-> RngNext(s), calls |-> calls + 1]

\* "while (u === 0) u = Math.random()": draws until the value is not 0;
\* the result is the accepted draw, the generator state and the number of calls
RECURSIVE DrawNonZero(_, _)
DrawNonZero(s, calls) ==
    LET s1 == RngNext(s)
    IN  IF s1 = 0 THEN DrawNonZero(s1, calls + 1)
        ELSE [u |-> s1, rng |-> s1, calls |-> calls + 1]

\* Math.sqrt(-2.0 * Math.log(u)) * Math.cos(2.0 * Math.PI * v) in millionths,
\* for u = i / 8 (row i) and v = j / 8 (column j)
BoxMullerMicro ==
    <<<<1442027, 0, -1442027, -2039334, -1442027, 0, 1442027>>,
      <<1177410, 0, -1177410, -1665109, -1177410, 0, 1177410>>,
      <<990368, 0, -990368, -1400592, -990368, 0, 990368>>,
      <<832555, 0, -832555, -1177410, -832555, 0, 832555>>,
      <<685568, 0, -685568, -969540, -685568, 0, 685568>>,
      <<536360, 0, -536360, -758528, -536360, 0, 536360>>,
      <<365419, 0, -365419, -516781, -365419, 0, 365419>>>>

\* gaussianRandom(0, stdDev) from generator state s
gaussianRandom(s, stdDev) ==
    LET du == DrawNonZero(s, 0)
        dv == DrawNonZero(du.rng, 0)
    IN  [val |-> Num(BoxMullerMicro[du.u][dv.u] * stdDev, 1000000),
         rng |-> dv.rng, calls |-> du.calls + dv.calls]

\* one iteration of the pixel loop: three samples, drawn in the order R, G, B
NoisePixel(p, sigma, s) ==
    LET nr == gaussianRandom(s, sigma)
        ng == gaussianRandom(nr.rng, sigma)
        nb == gaussianRandom(ng.rng, sigma)
    IN  [pixel |-> <<ToUint8Clamp(clamp(Add(Whole(p[1]), nr.val))),
                     ToUint8Clamp(clamp(Add(Whole(p[2]), ng.val))),
                     ToUint8Clamp(clamp(Add(Whole(p[3]), nb.val))),
                     p[4]>>,
         rng |-> nb.rng, calls |-> nr.calls + ng.calls + nb.calls]

\* the pixel loop from pixel i on; acc holds the pixels written so far
RECURSIVE NoiseLoop(_, _, _, _, _, _)
NoiseLoop(pixels, i, sigma, s, calls, acc) ==
    IF i > Len(pixels) THEN [data |-> acc, rng |-> s, calls |-> calls]
    ELSE LET np == NoisePixel(pixels[i], sigma, s)
         IN  NoiseLoop(pixels, i + 1, sigma, np.rng, calls + np.calls,
                       Append(acc, np.pixel))

\* the result also carries the generator state left behind and the number of
\* Math.random() calls made
applyGaussianNoise(h, ref, sigma, s) ==
    IF sigma <= 0 THEN [heap |-> h, ret |-> ref, rng |-> s, calls |-> 0]
    ELSE LET run == NoiseLoop(h[ref].data, 1, sigma, s, 0, <<>>)
             out == Filled(h[ref].width, h[ref].height, run.data)
         IN  [heap |-> Append(h, out), ret |-> Len(h) + 1,
              rng |-> run.rng, calls |-> run.calls]

\* ------------------------------------------------------ applyGaussianBlur
\* Sigma is given in hundredths of a pixel.  radius of makeGaussianKernel:
\* Math.max(1, Math.min(20, Math.ceil(sigma * 3)))
KernelRadius(sigma100) ==
    IF sigma100 <= 10 THEN 0
    ELSE LET c == (3 * sigma100 + 99) \div 100
             capped == IF c < 20 THEN c ELSE 20
         IN  IF capped > 1 THEN capped ELSE 1

\* The Float32Array kernel of makeGaussianKernel.  Each weight is a float32,
\* that is an integer multiple of 2^-32 here; it is held as hi * 2^-16 +
\* lo * 2^-32 with 0 <= hi, lo < 2^16 so that every product with a byte fits.
\* mutant: without "kernel[i] /= sum": the weights Math.exp(-(i * i) / (2 * sigma2))
KernelHiUnnormalised(sigma100) ==
    CASE sigma100 = 30 -> <<253, 65536, 253>>
      [] sigma100 = 60 -> <<253, 16343, 65536, 16343, 253>>
      [] sigma100 = 100 -> <<728, 8869, 39749, 65536, 39749, 8869, 728>>
      [] sigma100 = 1000 -> [k \in 1..41 |-> 65536]
      [] OTHER -> <<65536>>

KernelHi(sigma100) ==
    CASE sigma100 = 30 -> <<251, 65033, 251>>
      [] sigma100 = 60 -> <<168, 10847, 43503, 10847, 168>>
      [] sigma100 = 100 -> <<290, 3539, 15862, 26152, 15862, 3539, 290>>
      [] sigma100 = 1000 ->
           <<368, 448, 539, 642, 757, 884, 1022, 1170, 1326, 1487, 1652,
             1817, 1978, 2132, 2275, 2404, 2514, 2604, 2670, 2710, 2724,
             2710, 2670, 2604, 2514, 2404, 2275, 2132, 1978, 1817, 1652,
             1487, 1326, 1170, 1022, 884, 757, 642, 539, 448, 368>>
      [] OTHER -> <<65536>>

KernelLo(sigma100) ==
    CASE sigma100 = 30 -> <<27071, 11520, 27071>>
      [] sigma100 = 60 -> <<11992, 53568, 65280, 53568, 11992>>
      [] sigma100 = 100 -> <<34356, 20304, 5696, 10368, 5696, 20304, 34356>>
      [] sigma100 = 1000 ->
           <<44976, 4490, 8144, 15056, 28928, 28340, 28764, 14344, 2080,
             41936, 22104, 480, 13560, 18208, 31440, 8944, 52016, 24256,
             19664, 43024, 15968, 43024, 19664, 24256, 52016, 8944,
             31440, 18208, 13560, 480, 22104, 41936, 2080, 14344, 28764,
             28340, 28928, 15056, 8144, 4490, 44976>>
      [] OTHER -> <<0>>

makeGaussianKernel(sigma100) ==
    [hi |-> KernelHi(sigma100), lo |-> KernelLo(sigma100),
     radius |-> KernelRadius(sigma100)]

\* mutant: a neighbour index out of range wraps around
ClampIndexWrapping(v, hi) == v % (hi + 1)

\* Math.min(hi, Math.max(0, v)): the clamp-to-edge of a neighbour index
ClampIndex(v, hi) == IF v < 0 THEN 0 ELSE IF v > hi THEN hi ELSE v

\* "r += src[idx] * kv" over the kernel from tap k on: at[k] is the pixel
\* read for tap k, weights[k] its weight
RECURSIVE Weighted(_, _, _, _, _)
Weighted(pixels, at, c, weights, k) ==
    IF k > Len(weights) THEN 0
    ELSE pixels[at[k]][c] * weights[k] + Weighted(pixels, at, c, weights, k + 1)

\* The accumulator "r += src[idx] * kv" over the kernel holds the exact sum
\* hiSum * 2^-16 + loSum * 2^-32 (a double has the bits for it); storing it
\* into a Uint8ClampedArray rounds to nearest, ties to even, and clamps.
StoreBlurSum(hiSum, loSum) ==
    LET top == hiSum + (loSum \div 65536)
        low == loSum % 65536
        q == top \div 65536
        frac == top % 65536
        rounded == IF frac < 32768 THEN q
                   ELSE IF frac > 32768 \/ low > 0 THEN q + 1
                   ELSE IF q % 2 = 0 THEN q ELSE q + 1
    IN  IF rounded > 255 THEN 255 ELSE rounded

BlurAt(pixels, at, c, kern) ==
    StoreBlurSum(Weighted(pixels, at, c, kern.hi, 1), Weighted(pixels, at, c, kern.lo, 1))

BlurPixel(pixels, at, kern) ==
    <<BlurAt(pixels, at, 1, kern), BlurAt(pixels, at, 2, kern),
      BlurAt(pixels, at, 3, kern), BlurAt(pixels, at, 4, kern)>>

\* the pixels the horizontal pass reads for output pixel i (i = y * w + x + 1),
\* one per k = -radius..radius: row y, column x + k clamped to the edge
HorizontalTaps(i, w, radius) ==
    LET x == (i - 1) % w
        y == (i - 1) \div w
    IN  [t \in 1..(2 * radius + 1) |-> y * w + ClampIndex(x + t - 1 - radius, w - 1) + 1]

\* the pixels the vertical pass reads for output pixel i: column x, row y + k
\* clamped to the edge
VerticalTaps(i, w, h, radius) ==
    LET x == (i - 1) % w
        y == (i - 1) \div w
    IN  [t \in 1..(2 * radius + 1) |-> ClampIndex(y + t - 1 - radius, h - 1) * w + x + 1]

\* the horizontal pass: tmp, read from src only; acc holds the pixels of tmp
\* written so far
RECURSIVE HorizontalPass(_, _, _, _, _)
HorizontalPass(pixels, w, h, kern, acc) ==
    IF Len(acc) >= w * h THEN acc
    ELSE HorizontalPass(pixels, w, h, kern,
             Append(acc, BlurPixel(pixels, HorizontalTaps(Len(acc) + 1, w, kern.radius), kern)))

\* the vertical pass: out, read from tmp only; acc holds the pixels of out
\* written so far
RECURSIVE VerticalPass(_, _, _, _, _)
VerticalPass(tmp, w, h, kern, acc) ==
    IF Len(acc) >= w * h THEN acc
    ELSE VerticalPass(tmp, w, h, kern,
             Append(acc, BlurPixel(tmp, VerticalTaps(Len(acc) + 1, w, h, kern.radius), kern)))

\* mutant: new ImageData(out, h, w)
BlurImageTransposed(data, sigma100) ==
    LET kern == makeGaussianKernel(sigma100)
        tmp == HorizontalPass(data.data, data.width, data.height, kern, <<>>)
    IN  [width |-> data.height, height |-> data.width,
         data |-> VerticalPass(tmp, data.width, data.height, kern, <<>>)]

BlurImage(data, sigma100) ==
    LET kern == makeGaussianKernel(sigma100)
        tmp == HorizontalPass(data.data, data.width, data.height, kern, <<>>)
    IN  [width |-> data.width, height |-> data.height,
         data |-> VerticalPass(tmp, data.width, data.height, kern, <<>>)]

\* "new ImageData(out, w, h)" throws when out.length is not 4 * w * h; out
\* has the length of src.  threw tells whether the call ended by that throw.
applyGaussianBlur(h, ref, sigma100) ==
    IF sigma100 <= 10 THEN [heap |-> h, ret |-> ref, threw |-> FALSE]
    ELSE IF Len(h[ref].data) # h[ref].width * h[ref].height
    THEN [heap |-> h, ret |-> ref, threw |-> TRUE]
    ELSE [heap |-> Append(h, BlurImage(h[ref], sigma100)), ret |-> Len(h) + 1,
          threw |-> FALSE]

\* ------------------------------------------------------------ the inputs
\* pixels the input images are made of
Palette == << <<10, 200, 10, 255>>, <<100, 100, 100, 255>>, <<128, 40, 250, 64>> >>

\* pixel rows of one colour, and rows of one colour but for the first or the
\* last pixel
PixelRows(n) ==
    {[i \in 1..n |-> Palette[c]] : c \in 1..Len(Palette)}
    \cup {[i \in 1..n |-> IF i = at THEN Palette[pair[2]] ELSE Palette[pair[1]]] :
            pair \in {<<1, 2>>, <<3, 1>>}, at \in {1, n}}

\* objects of ImageData's shape, with data up to one pixel short or long
Images ==
    {[width |-> w, height |-> h, data |-> d] :
        w \in 1..MaxW, h \in 1..MaxH,
        d \in UNION {PixelRows(n) : n \in 0..(MaxW * MaxH + 1)}}

WellFormed(image) == Len(image.data) = image.width * image.height

\* the ImageData objects a canvas hands out: data.length = 4 * width * height
InputImages == {image \in Images : WellFormed(image)}

\* objects typed ImageData whose data is one pixel short or one pixel long
MalformedImages ==
    {image \in Images : Len(image.data) \in {image.width * image.height - 1,
                                             image.width * image.height + 1}}

\* DEFAULT_ADJ of the editor: every stage disabled
DefaultAdj ==
    [autoWhiteBalance |-> FALSE, noiseSigma |-> 0, blurPx |-> 0,
     brightness |-> 0, contrast |-> 0, saturation |-> 0]

\* one enabling value per stage (blurPx in hundredths of a pixel)
MainAdj ==
    [autoWhiteBalance |-> TRUE, noiseSigma |-> 10, blurPx |-> 100,
     brightness |-> 50, contrast |-> 0, saturation |-> -100]

\* every mix of DefaultAdj and MainAdj, and each of them with one field at a
\* further value of its slider
AdjValues ==
    LET mixes == {[autoWhiteBalance |-> a, noiseSigma |-> n, blurPx |-> bl,
                   brightness |-> br, contrast |-> 0, saturation |-> s] :
                    a \in BOOLEAN, n \in {0, 10}, bl \in {0, 100},
                    br \in {0, 50}, s \in {0, -100}}
        ends == {DefaultAdj, MainAdj}
    IN  mixes
        \cup {[e EXCEPT !.contrast = c] : e \in ends, c \in {100, -50}}
        \cup {[e EXCEPT !.saturation = v] : e \in ends, v \in {50}}
        \cup {[e EXCEPT !.blurPx = v] : e \in ends, v \in {5, 10, 60}}

\* the fields of Adjustments whose value a function is passed
Reads(fn) ==
    CASE fn = "applyPipeline" -> DOMAIN DefaultAdj
      [] fn = "applyAutoWhiteBalance" -> {}
      [] fn = "applyGaussianNoise" -> {"noiseSigma"}
      [] fn = "applyBrightnessContrast" -> {"brightness", "contrast"}
      [] fn = "applySaturation" -> {"saturation"}
      [] fn = "applyGaussianBlur" -> {"blurPx"}

\* the Adjustments a caller of fn draws its arguments from: fields fn is not
\* passed stay at their default
ArgsFor(fn) ==
    {a \in AdjValues : \A f \in (DOMAIN DefaultAdj) \ Reads(fn) : a[f] = DefaultAdj[f]}

\* states of the hidden generator of Math.random() when the page starts
RngSeeds == {0, 5}

\* the exported functions of imageOps.ts a caller can call
Functions ==
    {"applyPipeline", "applyAutoWhiteBalance", "applyGaussianNoise",
     "applyBrightnessContrast", "applySaturation", "applyGaussianBlur"}

\* ------------------------------------------------------------- the state
VARIABLES
    heap,     \* the ImageData objects allocated so far, by reference
    input,    \* the caller's image: a reference
    given,    \* the object input referred to when the caller got it
    adj,      \* the caller's Adjustments
    clipPct,  \* the clip fraction a caller of applyAutoWhiteBalance passes
    called,   \* the exported function the caller calls
    img,      \* applyPipeline's local img: a reference
    pc,       \* "idle", or where applyPipeline is: the stage it is about to
              \* run or "ret"; "threw" once a call has thrown
    rng,      \* the hidden state of Math.random()
    calls,    \* the number of Math.random() calls of the current or last call
    effects,  \* the stages of the current or last applyPipeline run that
              \* returned a new object, in order: [stage, from, to]
    results,  \* what the finished calls returned: [ref, image]
    \* the ImageEditor component of components/ImageEditor.tsx
    imageURL,   \* state imageURL: 0 for null, else the number of the selection
                \* whose object URL it is
    fileName,   \* state fileName: 0 for null, else the file selected last
    selections, \* the files selected so far, in order
    loading,    \* the selections whose Image has not fired onload yet
    srcCanvas,  \* srcCanvasRef.current: NoCanvas or what the canvas holds
    imgDims,    \* state imgDims: NoDims for null, else [w, h]
    canvas,     \* canvasRef.current: NoCanvas or what the visible canvas holds
    adjState,   \* state adj: [ver, val]; ver tells the objects setAdj was
                \* given apart, 0 is defaultAdj
    dAdj,       \* the state v of useDebounced(adj, 60): [ver, val]
    timers,     \* the pending timeouts of useDebounced: [value, left]
    frames,     \* the pending requestAnimationFrame callbacks, in order, each
                \* with what its closure holds: [base, adj, w, h]
    working,    \* state working
    quiet,      \* the time since setAdj was last called, up to Delay
    stable,     \* the versions of adj that stayed unchanged for Delay
    painted,    \* the last applyPipeline call whose result a frame callback put
                \* on the visible canvas: [base, adj, out]
    created     \* the number of objects the controls have given setAdj

editor == <<imageURL, fileName, selections, loading, srcCanvas, imgDims, canvas,
            adjState, dAdj, timers, frames, working, quiet, stable, painted, created>>

vars == <<heap, input, given, adj, clipPct, called, img, pc, rng, calls, effects, results,
          editor>>

\* no canvas element (a null ref) and no dimensions (null)
NoCanvas == [width |-> 0, height |-> 0, data |-> <<>>]
NoDims == [w |-> 0, h |-> 0]
NoRun == [base |-> NoCanvas, adj |-> 0, out |-> NoCanvas]

\* the Timeout ticks 60 ms are, at 20 ms a tick: useDebounced(adj, 60)
Delay == 3

\* the component is not mounted: only imageOps.ts is exercised
Unmounted ==
    /\ imageURL = 0
    /\ fileName = 0
    /\ selections = <<>>
    /\ loading = {}
    /\ srcCanvas = NoCanvas
    /\ imgDims = NoDims
    /\ canvas = NoCanvas
    /\ adjState = [ver |-> 0, val |-> DefaultAdj]
    /\ dAdj = [ver |-> 0, val |-> DefaultAdj]
    /\ timers = {}
    /\ frames = <<>>
    /\ working = FALSE
    /\ quiet = 0
    /\ stable = {}
    /\ painted = NoRun
    /\ created = 0

Start(images) ==
    /\ \E image \in images :
        /\ heap = <<image>>
        /\ given = image
    /\ input = 1
    /\ called \in Functions
    /\ adj \in ArgsFor(called)
    /\ clipPct = DefaultClipPct
    /\ img = 1
    /\ pc = "idle"
    /\ rng \in RngSeeds
    /\ calls = 0
    /\ effects = <<>>
    /\ results = <<>>
    /\ Unmounted

Init == Start(InputImages)

\* ------------------------------------------------------- applyPipeline
\* mutant: the Noise and the Brightness/Contrast statements change places
NextStageSwapped(stage) ==
    CASE stage = "awb" -> "bc"
      [] stage = "bc" -> "noise"
      [] stage = "noise" -> "sat"
      [] stage = "sat" -> "blur"
      [] stage = "blur" -> "ret"

\* the statement after each statement of applyPipeline
NextStage(stage) ==
    CASE stage = "awb" -> "noise"
      [] stage = "noise" -> "bc"
      [] stage = "bc" -> "sat"
      [] stage = "sat" -> "blur"
      [] stage = "blur" -> "ret"

\* what a finished step leaves: r is the stage's [heap, ret], or the
\* unchanged heap and img when the step's condition was false
Stepped(stage, r) ==
    /\ heap' = r.heap
    /\ img' = r.ret
    /\ effects' = IF r.ret # img
                  THEN Append(effects, [stage |-> stage, from |-> img, to |-> r.ret])
                  ELSE effects
    /\ pc' = NextStage(stage)

\* the caller calls applyPipeline(input, adj): let img = input
Call ==
    /\ pc = "idle"
    /\ called = "applyPipeline"
    /\ Len(results) < MaxRuns
    /\ pc' = "awb"
    /\ img' = input
    /\ calls' = 0
    /\ effects' = <<>>
    /\ UNCHANGED <<heap, input, given, adj, clipPct, called, editor, rng, results>>

\* if (adj.autoWhiteBalance) img = applyAutoWhiteBalance(img)
StepAutoWhiteBalance ==
    /\ pc = "awb"
    /\ \E r \in {IF adj.autoWhiteBalance
                 THEN applyAutoWhiteBalance(heap, img, DefaultClipPct)
                 ELSE ReturnSame(heap, img)} : Stepped("awb", r)
    /\ UNCHANGED <<input, given, adj, clipPct, called, editor, rng, calls, results>>

\* if (adj.noiseSigma > 0) img = applyGaussianNoise(img, adj.noiseSigma)
StepNoise ==
    /\ pc = "noise"
    /\ \E r \in {IF adj.noiseSigma > 0
                 THEN applyGaussianNoise(heap, img, adj.noiseSigma, rng)
                 ELSE [heap |-> heap, ret |-> img, rng |-> rng, calls |-> 0]} :
           /\ Stepped("noise", r)
           /\ rng' = r.rng
           /\ calls' = calls + r.calls
    /\ UNCHANGED <<input, given, adj, clipPct, called, editor, results>>

\* if (adj.brightness !== 0 || adj.contrast !== 0) img = applyBrightnessContrast(...)
StepBrightnessContrast ==
    /\ pc = "bc"
    /\ \E r \in {IF adj.brightness # 0 \/ adj.contrast # 0
                 THEN applyBrightnessContrast(heap, img, adj.brightness, adj.contrast)
                 ELSE ReturnSame(heap, img)} : Stepped("bc", r)
    /\ UNCHANGED <<input, given, adj, clipPct, called, editor, rng, calls, results>>

\* if (adj.saturation !== 0) img = applySaturation(img, adj.saturation)
StepSaturation ==
    /\ pc = "sat"
    /\ \E r \in {IF adj.saturation # 0 THEN applySaturation(heap, img, adj.saturation)
                 ELSE ReturnSame(heap, img)} : Stepped("sat", r)
    /\ UNCHANGED <<input, given, adj, clipPct, called, editor, rng, calls, results>>

\* if (adj.blurPx > 0) img = applyGaussianBlur(img, adj.blurPx); a throw of
\* the stage ends applyPipeline
StepBlur ==
    /\ pc = "blur"
    /\ \E r \in {IF adj.blurPx > 0 THEN applyGaussianBlur(heap, img, adj.blurPx)
                 ELSE [heap |-> heap, ret |-> img, threw |-> FALSE]} :
           IF r.threw
           THEN /\ pc' = "threw"
                /\ UNCHANGED <<heap, img, effects>>
           ELSE Stepped("blur", r)
    /\ UNCHANGED <<input, given, adj, clipPct, called, editor, rng, calls, results>>

\* return img
Return ==
    /\ pc = "ret"
    /\ results' = Append(results, [ref |-> img, image |-> heap[img]])
    /\ pc' = "idle"
    /\ UNCHANGED <<heap, input, given, adj, clipPct, called, editor, img, rng, calls, effects>>

\* ------------------------------------------- the stages, called directly
\* a direct call that returned r = [heap, ret]
Returned(r) ==
    /\ heap' = r.heap
    /\ results' = Append(results, [ref |-> r.ret, image |-> r.heap[r.ret]])
    /\ UNCHANGED <<input, given, adj, clipPct, called, editor, img, pc, effects>>

Callable(fn) ==
    /\ pc = "idle"
    /\ called = fn
    /\ Len(results) < MaxRuns

CallAutoWhiteBalance ==
    /\ Callable("applyAutoWhiteBalance")
    /\ \E r \in {applyAutoWhiteBalance(heap, input, clipPct)} : Returned(r)
    /\ UNCHANGED <<rng, calls>>

CallGaussianNoise ==
    /\ Callable("applyGaussianNoise")
    /\ \E r \in {applyGaussianNoise(heap, input, adj.noiseSigma, rng)} :
           /\ Returned(r)
           /\ rng' = r.rng
           /\ calls' = r.calls

CallBrightnessContrast ==
    /\ Callable("applyBrightnessContrast")
    /\ \E r \in {applyBrightnessContrast(heap, input, adj.brightness, adj.contrast)} :
           Returned(r)
    /\ UNCHANGED <<rng, calls>>

CallSaturation ==
    /\ Callable("applySaturation")
    /\ \E r \in {applySaturation(heap, input, adj.saturation)} : Returned(r)
    /\ UNCHANGED <<rng, calls>>

CallGaussianBlur ==
    /\ Callable("applyGaussianBlur")
    /\ \E r \in {applyGaussianBlur(heap, input, adj.blurPx)} :
           IF r.threw
           THEN /\ pc' = "threw"
                /\ UNCHANGED <<heap, input, given, adj, clipPct, called, editor, img,
                               effects, results>>
           ELSE Returned(r)
    /\ UNCHANGED <<rng, calls>>

Next ==
    \/ Call
    \/ StepAutoWhiteBalance
    \/ StepNoise
    \/ StepBrightnessContrast
    \/ StepSaturation
    \/ StepBlur
    \/ Return
    \/ CallAutoWhiteBalance
    \/ CallGaussianNoise
    \/ CallBrightnessContrast
    \/ CallSaturation
    \/ CallGaussianBlur

Spec == Init /\ [][Next]_vars

\* the same program handed objects whose data length is not 4 * width * height
InitRaw == Start(MalformedImages)

SpecRaw == InitRaw /\ [][Next]_vars

\* ------------------------------------ applyAutoWhiteBalance, called alone
\* rows of n palette pixels in which pixels of one colour lie together: the
\* first a of the first colour, those up to b of the second, then the third
LevelRows(n) ==
    {[i \in 1..n |-> Palette[IF i <= a THEN 1 ELSE IF i <= b THEN 2 ELSE 3]] :
        a \in 0..n, b \in 0..n}

LevelImages ==
    {[width |-> w, height |-> h, data |-> d] :
        w \in 1..MaxW, h \in 1..MaxH, d \in UNION {LevelRows(n) : n \in 1..(MaxW * MaxH)}}

\* clip fractions a caller passes: 0, the default, 1/4, 1/2, 3/4 and 7/8
ClipFractions ==
    {[num |-> 0, den |-> 1], DefaultClipPct, [num |-> 1, den |-> 4],
     [num |-> 1, den |-> 2], [num |-> 3, den |-> 4], [num |-> 7, den |-> 8]}

InitLevels ==
    /\ \E image \in {i \in LevelImages : WellFormed(i)} :
        /\ heap = <<image>>
        /\ given = image
    /\ input = 1
    /\ called = "applyAutoWhiteBalance"
    /\ adj = DefaultAdj
    /\ clipPct \in ClipFractions
    /\ img = 1
    /\ pc = "idle"
    /\ rng = 0
    /\ calls = 0
    /\ effects = <<>>
    /\ results = <<>>
    /\ Unmounted

NextLevels == CallAutoWhiteBalance

SpecLevels == InitLevels /\ [][NextLevels]_vars

\* ----------------------------------------- applySaturation, called alone
\* pixels of every kind rgbToHsl tells apart: greys, black and white, each of
\* r, g, b as the greatest channel, g < b and g >= b, l on both sides of 0.5
Colours ==
    << <<10, 200, 10, 255>>, <<100, 100, 100, 255>>, <<128, 40, 250, 64>>,
       <<0, 0, 0, 255>>, <<255, 255, 255, 0>>, <<200, 32, 60, 255>>,
       <<250, 180, 90, 128>>, <<32, 60, 200, 255>>, <<40, 220, 240, 255>>,
       <<255, 0, 0, 255>>, <<90, 250, 180, 255>>, <<60, 20, 20, 255>> >>

\* one row of pixels, taken from Colours in order starting at any of them
ColourImages ==
    {[width |-> w, height |-> 1,
      data |-> [i \in 1..w |-> Colours[((first + i - 2) % Len(Colours)) + 1]]] :
        w \in 1..MaxW, first \in 1..Len(Colours)}

\* values of the saturation slider (-100..100)
SaturationValues == {-100, -50, 0, 50, 100}

InitColours ==
    /\ \E image \in ColourImages :
        /\ heap = <<image>>
        /\ given = image
    /\ input = 1
    /\ called = "applySaturation"
    /\ \E v \in SaturationValues : adj = [DefaultAdj EXCEPT !.saturation = v]
    /\ clipPct = DefaultClipPct
    /\ img = 1
    /\ pc = "idle"
    /\ rng = 0
    /\ calls = 0
    /\ effects = <<>>
    /\ results = <<>>
    /\ Unmounted

NextColours == CallSaturation

SpecColours == InitColours /\ [][NextColours]_vars

\* --------------------------------------- applyGaussianBlur, called alone
\* values of the blur slider (0..10) in hundredths: disabled ones, and one
\* each for the radii 1, 2, 3 and the capped radius 20
BlurValues == {0, 5, 10, 30, 60, 100, 1000}

InitBlur ==
    /\ \E image \in InputImages :
        /\ heap = <<image>>
        /\ given = image
    /\ input = 1
    /\ called = "applyGaussianBlur"
    /\ \E v \in BlurValues : adj = [DefaultAdj EXCEPT !.blurPx = v]
    /\ clipPct = DefaultClipPct
    /\ img = 1
    /\ pc = "idle"
    /\ rng = 0
    /\ calls = 0
    /\ effects = <<>>
    /\ results = <<>>
    /\ Unmounted

NextBlur == CallGaussianBlur

SpecBlur == InitBlur /\ [][NextBlur]_vars

\* one pixel for every channel value: v in red, its complement in green,
\* v + 128 modulo 256 in blue
ChannelImages ==
    {[width |-> 1, height |-> 1, data |-> << <<v, 255 - v, (v + 128) % 256, 255>> >>] :
        v \in 0..255}

\* slider positions: the ends, the middle, half way, and the last contrast
\* below 100
BrightnessValues == {-100, -50, 0, 50, 100}
ContrastValues == {-100, -50, 0, 50, 99, 100}

InitChannels ==
    /\ \E image \in ChannelImages :
        /\ heap = <<image>>
        /\ given = image
    /\ input = 1
    /\ called = "applyBrightnessContrast"
    /\ \E b \in BrightnessValues, c \in ContrastValues :
           adj = [DefaultAdj EXCEPT !.brightness = b, !.contrast = c]
    /\ clipPct = DefaultClipPct
    /\ img = 1
    /\ pc = "idle"
    /\ rng = 0
    /\ calls = 0
    /\ effects = <<>>
    /\ results = <<>>
    /\ Unmounted

NextChannels == CallBrightnessContrast

SpecChannels == InitChannels /\ [][NextChannels]_vars

\* positions of the noise slider: off, its first step, 10 and its end
NoiseValues == {0, 1, 10, 50}

InitSamples ==
    /\ \E image \in InputImages :
        /\ heap = <<image>>
        /\ given = image
    /\ input = 1
    /\ called = "applyGaussianNoise"
    /\ \E v \in NoiseValues : adj = [DefaultAdj EXCEPT !.noiseSigma = v]
    /\ clipPct = DefaultClipPct
    /\ img = 1
    /\ pc = "idle"
    /\ rng \in 0..7
    /\ calls = 0
    /\ effects = <<>>
    /\ results = <<>>
    /\ Unmounted

NextSamples == CallGaussianNoise

SpecSamples == InitSamples /\ [][NextSamples]_vars

\* ------------------------------------------- applyPipeline, as one call
\* applyPipeline(data, a) with Math.random() in state s: the image returned
\* and the state Math.random() is left in
StageImage(r) == r.heap[r.ret]

\* if (adj.blurPx > 0) img = applyGaussianBlur(img, adj.blurPx); return img
PipelineBlur(image, a) ==
    IF a.blurPx > 0 THEN StageImage(applyGaussianBlur(<<image>>, 1, a.blurPx)) ELSE image

\* if (adj.saturation !== 0) img = applySaturation(img, adj.saturation)
PipelineSaturation(image, a) ==
    PipelineBlur(IF a.saturation # 0
                 THEN StageImage(applySaturation(<<image>>, 1, a.saturation))
                 ELSE image, a)

\* if (adj.brightness !== 0 || adj.contrast !== 0) img = applyBrightnessContrast(...)
PipelineBrightnessContrast(image, a) ==
    PipelineSaturation(IF a.brightness # 0 \/ a.contrast # 0
                       THEN StageImage(applyBrightnessContrast(<<image>>, 1, a.brightness,
                                                               a.contrast))
                       ELSE image, a)

\* the stages after the noise stage returned n
PipelineAfterNoise(n, a) ==
    [image |-> PipelineBrightnessContrast(StageImage(n), a), rng |-> n.rng]

\* if (adj.noiseSigma > 0) img = applyGaussianNoise(img, adj.noiseSigma)
PipelineNoise(image, a, s) ==
    PipelineAfterNoise(IF a.noiseSigma > 0
                       THEN applyGaussianNoise(<<image>>, 1, a.noiseSigma, s)
                       ELSE [heap |-> <<image>>, ret |-> 1, rng |-> s, calls |-> 0], a)

applyPipeline(data, a, s) ==
    PipelineNoise(IF a.autoWhiteBalance
                  THEN StageImage(applyAutoWhiteBalance(<<data>>, 1, DefaultClipPct))
                  ELSE data, a, s)

\* ------------------------------------------------ the ImageEditor component
\* A state change, the render it causes and the effects of that render are
\* one step: React commits them before the next event is handled.
\*
\* the image files the user can select, each as the image it decodes to
Files ==
    << [width |-> 1, height |-> 1, data |-> <<Palette[1]>>],
       [width |-> 2, height |-> 1, data |-> <<Palette[2], Palette[3]>>] >>

\* what the controls hand to setAdj(a => ({ ...a, field: v })): field and v
Controls == {<<"brightness", 50>>, <<"saturation", -100>>}

\* a canvas element just mounted: 300 x 150 and nothing drawn
BlankCanvas == [width |-> 300, height |-> 150, data |-> <<>>]

\* srcCtx.getImageData(0, 0, dims.w, dims.h): the rectangle of the canvas,
\* transparent black where the canvas does not reach
GetImageData(src, dims) ==
    [width |-> dims.w, height |-> dims.h,
     data |-> [i \in 1..(dims.w * dims.h) |->
                 LET x == (i - 1) % dims.w
                     y == (i - 1) \div dims.w
                 IN  IF x < src.width /\ y < src.height THEN src.data[y * src.width + x + 1]
                     ELSE ZeroPixel]]

\* mutant: the frame callback works on the adjustments of the first render
RecomputeEffectStale(src, dims, d) ==
    IF src = NoCanvas \/ dims = NoDims THEN <<>>
    ELSE <<[base |-> GetImageData(src, dims), adj |-> [ver |-> 0, val |-> DefaultAdj],
            w |-> dims.w, h |-> dims.h]>>

\* The effect "Recompute when adjustments change" run after a render with
\* debounced value d and dimensions dims: the callbacks it hands to
\* requestAnimationFrame, none when it returns early.
RecomputeEffect(src, dims, d) ==
    IF src = NoCanvas \/ dims = NoDims THEN <<>>
    ELSE <<[base |-> GetImageData(src, dims), adj |-> d, w |-> dims.w, h |-> dims.h]>>

\* mutant: the effect of useDebounced returns no cleanup
RearmWithoutClear(pending, value) == pending \cup {[value |-> value, left |-> Delay]}

\* The effect of useDebounced after a render with a new value: the cleanup
\* of the effect before it clears its timeout, then setTimeout(..., delay).
Rearm(pending, value) == {[value |-> value, left |-> Delay]}

InitEditor ==
    /\ heap = <<>>
    /\ given = NoCanvas
    /\ input = 0
    /\ called = "applyPipeline"
    /\ adj = DefaultAdj
    /\ clipPct = DefaultClipPct
    /\ img = 0
    /\ pc = "idle"
    /\ rng = 0
    /\ calls = 0
    /\ effects = <<>>
    /\ results = <<>>
    /\ imageURL = 0
    /\ fileName = 0
    /\ selections = <<>>
    /\ loading = {}
    /\ srcCanvas = NoCanvas
    /\ imgDims = NoDims
    /\ canvas = NoCanvas
    /\ adjState = [ver |-> 0, val |-> DefaultAdj]
    /\ dAdj = [ver |-> 0, val |-> DefaultAdj]
    /\ timers = Rearm({}, [ver |-> 0, val |-> DefaultAdj])
    /\ frames = <<>>
    /\ working = FALSE
    /\ quiet = 0
    /\ stable = {}
    /\ painted = NoRun
    /\ created = 0

library == <<heap, input, given, adj, clipPct, called, img, pc, calls, effects, results>>

\* loadImage(file) by onDrop or onInputFile, and the effect of [imageURL]:
\* a new Image starts loading the object URL; the files are selected in the
\* order of Files, each once
SelectFile(f) ==
    /\ f = Len(selections) + 1
    /\ selections' = Append(selections, f)
    /\ imageURL' = Len(selections) + 1
    /\ fileName' = f
    /\ loading' = loading \cup {Len(selections) + 1}
    /\ UNCHANGED <<library, rng, srcCanvas, imgDims, canvas, adjState, dAdj, timers, frames,
                   working, quiet, stable, painted, created>>

\* img.onload of selection k (the images here are below maxDim, so scale
\* is 1): draws the image to the source canvas, setImgDims, paints the
\* visible canvas if there is one; then the render mounts the visible canvas
\* if there was none and the recompute effect runs for the new imgDims
OnLoad(k) ==
    /\ k \in loading
    /\ loading' = loading \ {k}
    /\ srcCanvas' = Files[selections[k]]
    /\ imgDims' = [w |-> Files[selections[k]].width, h |-> Files[selections[k]].height]
    /\ canvas' = IF canvas = NoCanvas THEN BlankCanvas ELSE Files[selections[k]]
    /\ frames' = frames \o RecomputeEffect(srcCanvas', imgDims', dAdj)
    /\ working' = TRUE
    /\ UNCHANGED <<library, rng, imageURL, fileName, selections, adjState, dAdj, timers,
                   quiet, stable, painted, created>>

\* a control calls setAdj; the render reruns the effect of useDebounced
ChangeAdj(field, v) ==
    /\ created < MaxChanges
    /\ created' = created + 1
    /\ adjState' = [ver |-> created + 1, val |-> [adjState.val EXCEPT ![field] = v]]
    /\ timers' = Rearm(timers, adjState')
    /\ quiet' = 0
    /\ UNCHANGED <<library, rng, imageURL, fileName, selections, loading, srcCanvas, imgDims,
                   canvas, dAdj, frames, working, stable, painted>>

\* 20 ms pass
Tick ==
    /\ quiet < Delay \/ \E t \in timers : t.left > 0
    /\ timers' = {[t EXCEPT !.left = IF t.left > 0 THEN t.left - 1 ELSE 0] : t \in timers}
    /\ quiet' = IF quiet < Delay THEN quiet + 1 ELSE Delay
    /\ stable' = IF quiet' = Delay THEN stable \cup {adjState.ver} ELSE stable
    /\ UNCHANGED <<library, rng, imageURL, fileName, selections, loading, srcCanvas, imgDims,
                   canvas, adjState, dAdj, frames, working, painted, created>>

\* a timeout of useDebounced is due and its callback runs: setV(value); when
\* that changes v, the render reruns the recompute effect for the new dAdj
TimerFire(t) ==
    /\ t \in timers
    /\ t.left = 0
    /\ timers' = timers \ {t}
    /\ dAdj' = t.value
    /\ IF t.value.ver # dAdj.ver
       THEN /\ frames' = frames \o RecomputeEffect(srcCanvas, imgDims, t.value)
            /\ working' = (working \/ RecomputeEffect(srcCanvas, imgDims, t.value) # <<>>)
       ELSE UNCHANGED <<frames, working>>
    /\ UNCHANGED <<library, rng, imageURL, fileName, selections, loading, srcCanvas, imgDims,
                   canvas, adjState, quiet, stable, painted, created>>

\* the browser runs the oldest requestAnimationFrame callback: applyPipeline
\* on what the closure holds, putImageData to the visible canvas if there is
\* one, setWorking(false)
Frame ==
    /\ frames # <<>>
    /\ \E r \in {applyPipeline(Head(frames).base, Head(frames).adj.val, rng)} :
        /\ canvas' = IF canvas = NoCanvas THEN canvas ELSE r.image
        /\ rng' = r.rng
        /\ painted' = IF canvas = NoCanvas THEN painted
                      ELSE [base |-> Head(frames).base, adj |-> Head(frames).adj,
                            out |-> r.image]
    /\ frames' = Tail(frames)
    /\ working' = FALSE
    /\ UNCHANGED <<library, imageURL, fileName, selections, loading, srcCanvas, imgDims,
                   adjState, dAdj, timers, quiet, stable, created>>

\* reset(), which the Reset button calls when there is an image: no URL, no
\* file name, defaultAdj, no dimensions; the render takes the visible canvas
\* away and, if adj changed, reruns the effect of useDebounced.  The source
\* canvas and the images still loading are left as they are.
Reset ==
    /\ imgDims # NoDims
    /\ imageURL' = 0
    /\ fileName' = 0
    /\ imgDims' = NoDims
    /\ canvas' = NoCanvas
    /\ adjState' = [ver |-> 0, val |-> DefaultAdj]
    /\ IF adjState.ver # 0
       THEN /\ timers' = Rearm(timers, adjState')
            /\ quiet' = 0
       ELSE UNCHANGED <<timers, quiet>>
    /\ UNCHANGED <<library, rng, selections, loading, srcCanvas, dAdj, frames, working,
                   stable, painted, created>>

NextEditor ==
    \/ \E f \in DOMAIN Files : SelectFile(f)
    \/ \E k \in loading : OnLoad(k)
    \/ \E c \in Controls : ChangeAdj(c[1], c[2])
    \/ Tick
    \/ \E t \in timers : TimerFire(t)
    \/ Frame
    \/ Reset

SpecEditor == InitEditor /\ [][NextEditor]_vars

\* ======================================================== the properties
Stages == <<"awb", "noise", "bc", "sat", "blur">>

StageIndex(stage) == CHOOSE k \in DOMAIN Stages : Stages[k] = stage

\* the parameter of a stage is enabled
ParameterEnabled(stage, a) ==
    CASE stage = "awb" -> a.autoWhiteBalance
      [] stage = "noise" -> a.noiseSigma > 0
      [] stage = "bc" -> a.brightness # 0 \/ a.contrast # 0
      [] stage = "sat" -> a.saturation # 0
      [] stage = "blur" -> a.blurPx > 10

AlphaOf(image) == [i \in DOMAIN image.data |-> image.data[i][4]]

PipelineSession == called = "applyPipeline"

\* C1: every image applyPipeline returns, and every image any stage
\* produces on the way, has the input's width and height and a data length
\* of width * height * 4.
C1_DimensionsPreserved ==
    /\ \A r \in DOMAIN heap :
        /\ heap[r].width = given.width
        /\ heap[r].height = given.height
        /\ 4 * Len(heap[r].data) = given.width * given.height * 4
    /\ \A k \in DOMAIN results :
        /\ results[k].image.width = given.width
        /\ results[k].image.height = given.height
        /\ 4 * Len(results[k].image.data) = given.width * given.height * 4

C1_Witness ==
    /\ PipelineSession
    /\ results # <<>>
    /\ Len(effects) = 5
    /\ given.width # given.height

\* C2: no step of applyPipeline and no stage writes to an object that
\* already exists: every object of the heap, the caller's input among them,
\* keeps every byte.
C2_InputNeverWritten ==
    [][\A r \in DOMAIN heap : r \in DOMAIN heap' /\ heap'[r] = heap[r]]_vars

C2_Witness ==
    /\ PipelineSession
    /\ Len(results) = 2
    /\ Len(effects) = 5
    /\ heap[input] = given
    /\ results[1].image # given

\* C3: the stages that take effect in a run of applyPipeline do so in the
\* order Auto-Level, Noise, Brightness/Contrast, Saturation, Blur; the first
\* reads the input and each later one reads the output of the one before it;
\* and once all five statements have run, exactly the stages whose parameter
\* is enabled have taken effect.
C3_FixedOrder ==
    PipelineSession =>
        /\ \A i, j \in DOMAIN effects :
            i < j => StageIndex(effects[i].stage) < StageIndex(effects[j].stage)
        /\ \A i \in DOMAIN effects :
            /\ effects[i].from = (IF i = 1 THEN input ELSE effects[i - 1].to)
            /\ effects[i].to # effects[i].from
        /\ pc = "ret" =>
            /\ {effects[i].stage : i \in DOMAIN effects}
                 = {Stages[k] : k \in {n \in DOMAIN Stages : ParameterEnabled(Stages[n], adj)}}
            /\ img = (IF effects = <<>> THEN input ELSE effects[Len(effects)].to)

C3_Witness ==
    /\ PipelineSession
    /\ pc = "ret"
    /\ Len(effects) = 5
    /\ effects[1].stage = "awb"
    /\ effects[5].stage = "blur"

\* C4: applyGaussianNoise with sigma <= 0, applySaturation with
\* saturationPct = 0 and applyGaussianBlur with sigmaPx <= 0.1 return an image
\* equal to their input, byte for byte.
C4_DisabledStageIsIdentity ==
    (\/ called = "applyGaussianNoise" /\ adj.noiseSigma <= 0
     \/ called = "applySaturation" /\ adj.saturation = 0
     \/ called = "applyGaussianBlur" /\ adj.blurPx <= 10)
    => \A k \in DOMAIN results : results[k].image = given

C4_Witness ==
    /\ called = "applySaturation"
    /\ adj.saturation = 0
    /\ results # <<>>
    /\ results[1].image = given
    /\ given.data[1] = Palette[1]

\* C5: applyBrightnessContrast with brightnessPct = 0 and contrastPct = 0
\* returns an image equal to its input.
C5_ZeroBrightnessContrastIsIdentity ==
    (called = "applyBrightnessContrast" /\ adj.brightness = 0 /\ adj.contrast = 0)
    => \A k \in DOMAIN results : results[k].image = given

\* C6: Auto-Level, Noise, Brightness/Contrast and Saturation copy the alpha
\* byte of every pixel, called directly or as a step of applyPipeline; and
\* what applyPipeline returns with blurPx <= 0.1 has the input's alpha bytes.
C6_AlphaPreserved ==
    /\ PipelineSession =>
        /\ \A i \in DOMAIN effects :
            effects[i].stage # "blur"
            => AlphaOf(heap[effects[i].to]) = AlphaOf(heap[effects[i].from])
        /\ adj.blurPx <= 10 =>
            \A k \in DOMAIN results : AlphaOf(results[k].image) = AlphaOf(given)
    /\ called \in {"applyAutoWhiteBalance", "applyGaussianNoise",
                   "applyBrightnessContrast", "applySaturation"} =>
        \A k \in DOMAIN results : AlphaOf(results[k].image) = AlphaOf(given)

C6_Witness ==
    /\ PipelineSession
    /\ adj.blurPx <= 10
    /\ results # <<>>
    /\ Len(effects) = 4
    /\ \E i \in DOMAIN given.data : given.data[i][4] = 64
    /\ results[1].image # given

C8_ResultAlwaysFresh ==
    PipelineSession => \A k \in DOMAIN results : results[k].ref # input

\* C8 as amended: applyPipeline returns an object allocated during the run,
\* distinct from the input and from everything returned before, exactly when
\* some stage's parameter is enabled; when none is, it returns the input
\* reference itself.
C8_FreshIffSomeStageEnabled ==
    PipelineSession =>
        \A k \in DOMAIN results :
            IF \E n \in DOMAIN Stages : ParameterEnabled(Stages[n], adj)
            THEN /\ results[k].ref # input
                 /\ \A j \in DOMAIN results : j < k => results[j].ref # results[k].ref
            ELSE results[k].ref = input

C8_Witness ==
    /\ PipelineSession
    /\ \A n \in DOMAIN Stages : ~ParameterEnabled(Stages[n], adj)
    /\ adj.blurPx = 10
    /\ Len(results) = 2
    /\ results[2].ref = input

\* C9: whenever applyBrightnessContrast runs, its contrast factor f is a
\* finite number and no channel value it computes is Infinity or NaN.
C9_ContrastFactorFinite ==
    (called = "applyBrightnessContrast" /\ results # <<>>) =>
        /\ IsFinite(ContrastFactor(adj.contrast))
        /\ \A i \in DOMAIN given.data : \A c \in 1..3 :
            IsFinite(BrightnessContrastValue(given.data[i][c], adj.brightness,
                                             adj.contrast))

\* C10: given an input whose data length is not width * height * 4,
\* applyPipeline produces no stage output and returns nothing.
C10_MalformedInputRejected ==
    (PipelineSession /\ ~WellFormed(given)) =>
        /\ results = <<>>
        /\ Len(heap) = 1

\* an image in which all pixels are identical
SingleColour(image) == \A i, j \in DOMAIN image.data : image.data[i] = image.data[j]

\* C11: applyAutoWhiteBalance, with any clip fraction, returns an image equal
\* to its input when all pixels of the input are identical: in each channel
\* the bounds are reset to 0 and 255 and the lookup table is the identity.
C11_SingleColourUnchanged ==
    (called = "applyAutoWhiteBalance" /\ SingleColour(given)) =>
        /\ \A k \in DOMAIN results : results[k].image = given
        /\ \A c \in 1..3 :
            lowHigh(given.data, c, ClipN(given.width * given.height, clipPct)) = <<0, 255>>
        /\ \A v \in 0..255 : makeLut(0, 255, v) = v

C11_Witness ==
    /\ called = "applyAutoWhiteBalance"
    /\ SingleColour(given)
    /\ Len(given.data) > 1
    /\ given.data[1] = Palette[3]
    /\ clipPct = [num |-> 3, den |-> 4]
    /\ results # <<>>
    /\ results[1].image = given
    /\ results[1].ref # input

StandardHsl(r, g, b) ==
    LET max == Max3(r, g, b)
        min == Min3(r, g, b)
        l == Num(max + min, 510)
        s == IF max = min THEN Whole(0)
             ELSE IF max + min <= 255 THEN Num(max - min, max + min)
             ELSE Num(max - min, 510 - max - min)
        h == IF max = min THEN Whole(0)
             ELSE IF max = r THEN Num((g - b) + (IF g < b THEN 6 * (max - min) ELSE 0),
                                      6 * (max - min))
             ELSE IF max = g THEN Num((b - r) + 2 * (max - min), 6 * (max - min))
             ELSE Num((r - g) + 4 * (max - min), 6 * (max - min))
    IN  <<h, s, l>>

\* the standard construction of the output pixel: s' = clamp01(s * factor),
\* (h, s', l) converted back by the hue-to-channel function and quantised
StandardSaturationPixel(p, saturationPct) ==
    LET hsl == StandardHsl(p[1], p[2], p[3])
        rgb == hslToRgb(hsl[1], ScaledSaturation(hsl[2], saturationPct), hsl[3])
    IN  <<ToUint8Clamp(clamp(rgb[1])), ToUint8Clamp(clamp(rgb[2])),
          ToUint8Clamp(clamp(rgb[3])), p[4]>>

\* C15: for every pixel and every nonzero saturationPct the output of
\* applySaturation is the pixel the standard HSL construction gives.
C15_StandardHslConstruction ==
    (called = "applySaturation" /\ adj.saturation # 0) =>
        \A k \in DOMAIN results : \A i \in DOMAIN given.data :
            results[k].image.data[i] = StandardSaturationPixel(given.data[i], adj.saturation)

RECURSIVE SumOf(_, _)
SumOf(weights, k) == IF k > Len(weights) THEN 0 ELSE weights[k] + SumOf(weights, k + 1)

\* C13: applyGaussianBlur with sigmaPx > 0.1 on an image whose pixels all
\* equal one RGBA value returns an image whose pixels all equal that value;
\* the kernel weights sum to 1 (to within 2^-16).
C13_ConstantImageUnchanged ==
    (called = "applyGaussianBlur" /\ adj.blurPx > 10 /\ SingleColour(given)) =>
        /\ \A k \in DOMAIN results : results[k].image = given
        /\ LET kern == makeGaussianKernel(adj.blurPx)
           IN  SumOf(kern.hi, 1) + (SumOf(kern.lo, 1) \div 65536) \in {65535, 65536}

C13_Witness ==
    /\ called = "applyGaussianBlur"
    /\ adj.blurPx = 1000
    /\ SingleColour(given)
    /\ Len(given.data) = MaxW * MaxH
    /\ given.data[1] = Palette[3]
    /\ results # <<>>
    /\ results[1].image = given
    /\ results[1].ref # input

\* C14: rapid changes of the adjustments are coalesced. The debounced value
\* is the initial one or a value that stayed the adjustments for the whole
\* delay, and so is the value of every applyPipeline call, queued or made:
\* never a value that was replaced before the delay had passed.
C14_Coalesced ==
    /\ dAdj.ver \in stable \cup {0}
    /\ \A i \in DOMAIN frames : frames[i].adj.ver \in stable \cup {0}
    /\ painted # NoRun => painted.adj.ver \in stable \cup {0}

\* the adjustments changed twice within the delay and the pipeline has run
\* with the second value
C14_Witness ==
    /\ adjState.ver >= 2
    /\ 1 \notin stable
    /\ painted # NoRun
    /\ painted.adj = adjState
    /\ dAdj = adjState

\* the 8-bit quantisation of num / den clamped to [0, 255], for den > 0: the
\* nearest whole number, the even one at a tie
Quantise8(num, den) ==
    IF num <= 0 THEN 0
    ELSE IF num >= 255 * den THEN 255
    ELSE LET q == num \div den
             r == num % den
         IN  IF 2 * r < den THEN q
             ELSE IF 2 * r > den THEN q + 1
             ELSE IF q % 2 = 0 THEN q ELSE q + 1

\* round(n * p) clamped to [0, n - 1]
StretchClipN(n, p) ==
    LET rounded == (2 * n * p.num + p.den) \div (2 * p.den)
    IN  IF rounded > n - 1 THEN n - 1 ELSE IF rounded < 0 THEN 0 ELSE rounded

\* the bounds of channel c: the first bin in ascending order and the first
\* in descending order whose cumulative count exceeds clipN, replaced by
\* (0, 255) when high <= low
StretchBounds(pixels, c, clipN) ==
    LET low == CHOOSE v \in 0..255 :
                   /\ Cardinality({i \in DOMAIN pixels : pixels[i][c] <= v}) > clipN
                   /\ \/ v = 0
                      \/ Cardinality({i \in DOMAIN pixels : pixels[i][c] <= v - 1}) <= clipN
        high == CHOOSE v \in 0..255 :
                   /\ Cardinality({i \in DOMAIN pixels : pixels[i][c] >= v}) > clipN
                   /\ \/ v = 255
                      \/ Cardinality({i \in DOMAIN pixels : pixels[i][c] >= v + 1}) <= clipN
    IN  IF high <= low THEN <<0, 255>> ELSE <<low, high>>

\* C16: in each of R, G and B applyAutoWhiteBalance takes the bounds from
\* the cumulative counts and clipN = round(n * p) clamped to [0, n - 1],
\* and outputs the 8-bit quantisation of clamp(((v - low) / (high - low)) *
\* 255, 0, 255); the mapping is non-decreasing in v, 0 for every v <= low
\* and 255 for every v >= high.
C16_LevelsStretch ==
    (called = "applyAutoWhiteBalance" /\ results # <<>>) =>
        \A c \in 1..3 :
            \E b \in {StretchBounds(given.data, c, StretchClipN(Len(given.data), clipPct))} :
                /\ lowHigh(given.data, c, ClipN(given.width * given.height, clipPct)) = b
                /\ \A k \in DOMAIN results : \A i \in DOMAIN given.data :
                       results[k].image.data[i][c] =
                           Quantise8((given.data[i][c] - b[1]) * 255, b[2] - b[1])
                /\ \A v \in 0..255 :
                       \E out \in {makeLut(b[1], b[2], v)} :
                           /\ out = Quantise8((v - b[1]) * 255, b[2] - b[1])
                           /\ v <= b[1] => out = 0
                           /\ v >= b[2] => out = 255
                           /\ v > 0 => out >= Quantise8((v - 1 - b[1]) * 255, b[2] - b[1])

\* the default clip fraction on pixels with red 10, 100 and 128: the bounds
\* are (10, 128) and the red 100 in between becomes 194
C16_Witness ==
    /\ called = "applyAutoWhiteBalance"
    /\ clipPct = DefaultClipPct
    /\ results # <<>>
    /\ StretchBounds(given.data, 1, StretchClipN(Len(given.data), clipPct)) = <<10, 128>>
    /\ \E i \in DOMAIN given.data :
           /\ given.data[i][1] = 100
           /\ results[1].image.data[i][1] = 194

\* clamp(f * (v - 128) + 128 + b, 0, 255) quantised to 8 bits, with
\* b = (brightnessPct / 100) * 255, c = contrastPct / 100 and
\* f = 259 * (c + 1) / (255 * (1 - c)), as one fraction over
\* 255 * (100 - contrastPct) * 20, for contrastPct < 100
ContrastStretch(v, brightnessPct, contrastPct) ==
    Quantise8(259 * (contrastPct + 100) * (v - 128) * 20
                  + (128 * 20 + brightnessPct * 51) * 255 * (100 - contrastPct),
              255 * (100 - contrastPct) * 20)

\* C17: with contrastPct < 100 every R, G and B the Brightness/Contrast
\* stage returns is the 8-bit quantisation of clamp(f * (in - 128) + 128 +
\* b, 0, 255) and alpha is copied; a channel of 100 with brightnessPct 50 and
\* contrastPct 0 becomes 227.
C17_BrightnessContrastFormula ==
    /\ BrightnessContrastChannel(100, 50, 0) = 227
    /\ (called = "applyBrightnessContrast" /\ adj.contrast < 100) =>
           \A k \in DOMAIN results : \A i \in DOMAIN given.data :
               /\ \A c \in 1..3 :
                      results[k].image.data[i][c] =
                          ContrastStretch(given.data[i][c], adj.brightness, adj.contrast)
               /\ results[k].image.data[i][4] = given.data[i][4]

\* the pixel with red 100 at brightnessPct 50 and contrastPct 0
C17_Witness ==
    /\ called = "applyBrightnessContrast"
    /\ adj.brightness = 50
    /\ adj.contrast = 0
    /\ given.data[1][1] = 100
    /\ results # <<>>
    /\ results[1].image.data[1][1] = 227
    /\ results[1].image.data[1][4] = 255

\* clamp(ceil(sigmaPx * 3), 1, 20) for sigmaPx = sigma100 / 100
EdgeRadius(sigma100) ==
    CHOOSE r \in 1..20 :
        /\ r = 1 \/ 3 * sigma100 > 100 * (r - 1)
        /\ r = 20 \/ 3 * sigma100 <= 100 * r

\* the index in 0..n-1 nearest to v: v itself in range, else the edge
NearestInRange(v, n) ==
    CHOOSE j \in 0..(n - 1) :
        \A m \in 0..(n - 1) :
            (IF v < j THEN j - v ELSE v - j) <= (IF v < m THEN m - v ELSE v - m)

\* what output pixel i reads in a pass along its row, and along its column
RowNeighbours(i, w, radius) ==
    [t \in 1..(2 * radius + 1) |->
        ((i - 1) \div w) * w + NearestInRange(((i - 1) % w) + t - 1 - radius, w) + 1]

ColumnNeighbours(i, w, h, radius) ==
    [t \in 1..(2 * radius + 1) |->
        NearestInRange(((i - 1) \div w) + t - 1 - radius, h) * w + ((i - 1) % w) + 1]

\* C18: applyGaussianBlur with sigmaPx > 0.1 has radius clamp(ceil(sigmaPx *
\* 3), 1, 20) and returns the pass along the columns of the pass along the
\* rows of the source; each pass reads 2 * radius + 1 pixels of its own
\* input, the neighbour nearest in range standing for one out of range.
C18_TwoPassEdgeClamped ==
    (called = "applyGaussianBlur" /\ adj.blurPx > 10) =>
        \E kern \in {makeGaussianKernel(adj.blurPx)} :
            /\ kern.radius = EdgeRadius(adj.blurPx)
            /\ Len(kern.hi) = 2 * kern.radius + 1
            /\ \A i \in DOMAIN given.data :
                   /\ HorizontalTaps(i, given.width, kern.radius)
                          = RowNeighbours(i, given.width, EdgeRadius(adj.blurPx))
                   /\ VerticalTaps(i, given.width, given.height, kern.radius)
                          = ColumnNeighbours(i, given.width, given.height,
                                             EdgeRadius(adj.blurPx))
            /\ \A k \in DOMAIN results :
                   \E tmp \in {[i \in DOMAIN given.data |->
                                   BlurPixel(given.data,
                                             RowNeighbours(i, given.width, kern.radius),
                                             kern)]} :
                       /\ results[k].image.width = given.width
                       /\ results[k].image.height = given.height
                       /\ results[k].image.data =
                              [i \in DOMAIN given.data |->
                                  BlurPixel(tmp,
                                            ColumnNeighbours(i, given.width, given.height,
                                                             kern.radius),
                                            kern)]

\* sigma 1.0, radius 3, on an image two pixels wide of two colours: every
\* pixel has neighbours out of range and the image returned differs
C18_Witness ==
    /\ called = "applyGaussianBlur"
    /\ adj.blurPx = 100
    /\ given.width = 2
    /\ ~SingleColour(given)
    /\ results # <<>>
    /\ results[1].image # given

\* the samples of count successive gaussianRandom(0, sigma) calls from
\* generator state s
RECURSIVE NoiseSamples(_, _, _)
NoiseSamples(s, sigma, count) ==
    IF count = 0 THEN <<>>
    ELSE LET g == gaussianRandom(s, sigma)
         IN  <<g>> \o NoiseSamples(g.rng, sigma, count - 1)

\* C19: no draw that gaussianRandom uses is 0, whatever the generator
\* returns first; and when applyGaussianNoise runs with sigma > 0 every
\* sample is finite, every R, G, B it returns is clamp(src + sample)
\* quantised to 8 bits, the samples being drawn one after the other, one
\* for each channel of each pixel, and alpha is copied.
C19_SamplesFiniteAndOwn ==
    /\ \A s \in 0..7 : DrawNonZero(s, 0).u # 0
    /\ [][(called = "applyGaussianNoise" /\ adj.noiseSigma > 0
               /\ Len(results') > Len(results)) =>
           \E samples \in {NoiseSamples(rng, adj.noiseSigma, 3 * Len(heap[input].data))} :
               /\ \A j \in DOMAIN samples :
                      IsFinite(samples[j].val) /\ samples[j].calls >= 2
               /\ calls' >= 6 * Len(heap[input].data)
               /\ \A i \in DOMAIN heap[input].data : \A c \in 1..3 :
                      LET sample == samples[3 * (i - 1) + c].val
                          out == results'[Len(results')].image.data[i][c]
                      IN  /\ out \in 0..255
                          /\ out = Quantise8(heap[input].data[i][c] * sample.d + sample.n,
                                             sample.d)
               /\ \A i \in DOMAIN heap[input].data :
                      results'[Len(results')].image.data[i][4] = heap[input].data[i][4]]_vars

\* a call with sigma 10 that drew a 0 and drew again
C19_Witness ==
    /\ called = "applyGaussianNoise"
    /\ adj.noiseSigma = 10
    /\ results # <<>>
    /\ calls > 6 * Len(given.data)
    /\ results[1].image # given

\* C20: after a second file was selected and no reset since, once every load
\* has completed and no frame callback is pending, the source canvas and imgDims hold the
\* file named by fileName, the last one selected, and the visible canvas
\* shows it: as drawn by onload or as the pipeline's result on it.
C20_LaterSelectionWins ==
    (Len(selections) >= 2 /\ loading = {} /\ frames = <<>> /\ fileName # 0) =>
        /\ srcCanvas = Files[fileName]
        /\ imgDims = [w |-> Files[fileName].width, h |-> Files[fileName].height]
        /\ \/ canvas = Files[fileName]
           \/ painted # NoRun /\ painted.base = Files[fileName] /\ canvas = painted.out

\* C21: with an image loaded, once the timeout of useDebounced has fired and
\* no frame callback is pending, the debounced value is the adjustments,
\* working is false, and the visible canvas holds what applyPipeline returns
\* for the source canvas and the adjustments: the result painted last was
\* computed from these two and from nothing older.
C21_SettledCanvasIsCurrent ==
    (imgDims # NoDims /\ timers = {} /\ frames = <<>>) =>
        /\ dAdj = adjState
        /\ working = FALSE
        /\ \E s \in 0..7 :
               canvas = applyPipeline(GetImageData(srcCanvas, imgDims), adjState.val, s).image
        /\ painted # NoRun
        /\ painted.base = GetImageData(srcCanvas, imgDims)
        /\ painted.adj = adjState
        /\ painted.out = canvas

\* both files loaded, brightness set to 50 and settled: the canvas shows the
\* second file brightened
C21_Witness ==
    /\ imgDims # NoDims
    /\ timers = {}
    /\ frames = <<>>
    /\ loading = {}
    /\ Len(selections) = 2
    /\ adjState.ver >= 1
    /\ adjState.val.brightness = 50
    /\ srcCanvas = Files[2]
    /\ canvas # srcCanvas
    /\ painted.adj = adjState
    /\ working = FALSE
====
